---- MODULE Spec2Model ----
\* Model of main.py: the Laplace noise generator (laplace_noise) and the
\* record processor (apply_differential_privacy).
\*
\* Text is modelled as sequences of one-character strings.  Floats are
\* modelled as exact rationals [num, den] (den > 0, lowest terms); every value
\* that occurs in the model is a multiple of 1/2 and therefore exactly
\* representable in binary floating point, so float arithmetic on it is exact.
\* A sample of np.random.laplace(loc, scale) is loc + scale * u, where u is
\* the standard Laplace variate delivered by the pseudo-random source; the
\* pseudo-random source is a nondeterministic choice of u.
EXTENDS Integers, Sequences, FiniteSets, TLC

VARIABLES
    data_exists,   \* whether open(data_file, 'r') finds the file
    infile,        \* the raw lines of data_file, each ending with "\n"
    epsilon,       \* argument epsilon
    sensitivity,   \* argument sensitivity
    column,        \* argument column
    delimiter,     \* argument delimiter
    status,        \* "start", "running", "done" (exit status 0), "exit1"
    pos,           \* number of completed iterations of the for loop
    outfile,       \* the lines written to output_file (without the "\n")
    log,           \* the records emitted through logging
    calls,         \* the line numbers at which laplace_noise was called
    draws,         \* the calls of np.random.laplace: [loc, scale, u]
    noise          \* the value laplace_noise returned last (local `noise`)

vars == <<data_exists, infile, epsilon, sensitivity, column, delimiter,
          status, pos, outfile, log, calls, draws, noise>>

-----------------------------------------------------------------------------
\* Bounds of the model.

MaxFileLen == 5    \* an input file has at most MaxFileLen characters
MaxCalls == 3      \* laplace_noise is called at most MaxCalls times in SpecNoise

\* The characters of input lines: a digit, a letter, a blank and a comma.
Alphabet == {"1", "a", " ", ","}

\* The standard Laplace variates the pseudo-random source may deliver.
Units == {-1, 1}

Epsilons == {-1, 0, 1, 2}
Sensitivities == {-1, 0, 1}
Columns == {-2, -1, 0, 1}
Delimiters == {<<",">>, <<" ">>, <<>>}

-----------------------------------------------------------------------------
\* Rational arithmetic standing for float arithmetic.

Abs(n) == IF n < 0 THEN -n ELSE n

RECURSIVE Gcd(_, _)
Gcd(a, b) == IF b = 0 THEN a ELSE Gcd(b, a % b)

\* n / d for integers n and d # 0, in lowest terms with a positive denominator.
Rat(n, d) ==
    LET g == Gcd(Abs(n), Abs(d))
        s == IF d < 0 THEN -1 ELSE 1
    IN  [num |-> (s * n) \div g, den |-> (s * d) \div g]

RatAdd(x, y) == Rat(x.num * y.den + y.num * x.den, x.den * y.den)

RatMulInt(x, k) == Rat(x.num * k, x.den)

-----------------------------------------------------------------------------
\* Python string operations.

\* The characters str.strip() and float() treat as whitespace.
Whitespace == {" ", "\n", "\t", "\r"}

RECURSIVE LStrip(_)
LStrip(s) ==
    IF s # <<>> /\ Head(s) \in Whitespace THEN LStrip(Tail(s)) ELSE s

RECURSIVE RStrip(_)
RStrip(s) ==
    IF s # <<>> /\ s[Len(s)] \in Whitespace
    THEN RStrip(SubSeq(s, 1, Len(s) - 1))
    ELSE s

\* str.strip()
Strip(s) == RStrip(LStrip(s))

\* str.split(d) for a non-empty separator d: `cur` is the field being read.
RECURSIVE SplitFrom(_, _, _)
SplitFrom(s, d, cur) ==
    IF s = <<>> THEN <<cur>>
    ELSE IF Len(s) >= Len(d) /\ SubSeq(s, 1, Len(d)) = d
         THEN <<cur>> \o SplitFrom(SubSeq(s, Len(d) + 1, Len(s)), d, <<>>)
         ELSE SplitFrom(Tail(s), d, Append(cur, Head(s)))

Split(s, d) == SplitFrom(s, d, <<>>)

\* d.join(fields)
RECURSIVE Join(_, _)
Join(fields, d) ==
    IF fields = <<>> THEN <<>>
    ELSE IF Len(fields) = 1 THEN fields[1]
    ELSE fields[1] \o d \o Join(Tail(fields), d)

Digit == [c \in {"0", "1", "2", "3", "4", "5", "6", "7", "8", "9"} |->
            CASE c = "0" -> 0 [] c = "1" -> 1 [] c = "2" -> 2 [] c = "3" -> 3
              [] c = "4" -> 4 [] c = "5" -> 5 [] c = "6" -> 6 [] c = "7" -> 7
              [] c = "8" -> 8 [] c = "9" -> 9]

DigitChar == <<"0", "1", "2", "3", "4", "5", "6", "7", "8", "9">>

RECURSIVE DigitsValue(_)
DigitsValue(s) ==
    IF s = <<>> THEN 0
    ELSE 10 * DigitsValue(SubSeq(s, 1, Len(s) - 1)) + Digit[s[Len(s)]]

\* float(s) on the strings of the model: surrounding whitespace is ignored and
\* a non-empty run of decimal digits is a number; anything else raises
\* ValueError.
IsFloat(s) ==
    LET t == Strip(s)
    IN  t # <<>> /\ \A k \in 1..Len(t) : t[k] \in DOMAIN Digit

ParseFloat(s) == Rat(DigitsValue(Strip(s)), 1)

RECURSIVE NatStr(_)
NatStr(n) ==
    IF n < 10 THEN <<DigitChar[n + 1]>>
    ELSE Append(NatStr(n \div 10), DigitChar[(n % 10) + 1])

\* str(x) of a float x that is a multiple of 1/2: sign, integer part, ".",
\* and the fraction digit "0" or "5".
FloatStr(x) ==
    LET a == Abs(x.num)
        whole == a \div x.den
        frac == IF x.den = 1 THEN "0" ELSE "5"
        sign == IF x.num < 0 THEN <<"-">> ELSE <<>>
    IN  sign \o NatStr(whole) \o <<".", frac>>

-----------------------------------------------------------------------------

\* laplace_noise without its check of epsilon: the division raises for
\* epsilon = 0 and np.random.laplace raises for a negative scale.
laplace_noise_unchecked(s, e, u) ==
    IF e = 0
    THEN [exc |-> "ZeroDivisionError", drew |-> FALSE, loc |-> 0,
          scale |-> Rat(0, 1), value |-> Rat(0, 1)]
    ELSE LET scale == Rat(s, e)
         IN  IF scale.num < 0
             THEN [exc |-> "ValueError", drew |-> FALSE, loc |-> 0,
                   scale |-> scale, value |-> Rat(0, 1)]
             ELSE [exc |-> "none", drew |-> TRUE, loc |-> 0,
                   scale |-> scale,
                   value |-> RatAdd(Rat(0, 1), RatMulInt(scale, u))]

\* laplace_noise with scale = sensitivity * epsilon.
laplace_noise_product(s, e, u) ==
    IF e <= 0
    THEN [exc |-> "ValueError", drew |-> FALSE, loc |-> 0,
          scale |-> Rat(0, 1), value |-> Rat(0, 1)]
    ELSE LET scale == Rat(s * e, 1)
         IN  IF scale.num < 0
             THEN [exc |-> "ValueError", drew |-> FALSE, loc |-> 0,
                   scale |-> scale, value |-> Rat(0, 1)]
             ELSE [exc |-> "none", drew |-> TRUE, loc |-> 0,
                   scale |-> scale,
                   value |-> RatAdd(Rat(0, 1), RatMulInt(scale, u))]

\* laplace_noise(sensitivity, epsilon), with u the variate the pseudo-random
\* source delivers if it is asked.  The result tells whether the call returned
\* (exc = "none") or raised, whether np.random.laplace drew a sample, and the
\* value returned.
laplace_noise(s, e, u) ==
    IF e <= 0
    THEN [exc |-> "ValueError", drew |-> FALSE, loc |-> 0,
          scale |-> Rat(0, 1), value |-> Rat(0, 1)]
    ELSE LET scale == Rat(s, e)
         IN  IF scale.num < 0
             THEN \* np.random.laplace rejects a negative scale
                  [exc |-> "ValueError", drew |-> FALSE, loc |-> 0,
                   scale |-> scale, value |-> Rat(0, 1)]
             ELSE [exc |-> "none", drew |-> TRUE, loc |-> 0,
                   scale |-> scale,
                   value |-> RatAdd(Rat(0, 1), RatMulInt(scale, u))]

-----------------------------------------------------------------------------
\* The input files of the model.

\* The contents of the input files: texts over the alphabet and "\n" in
\* which every line is terminated.
Texts ==
    {t \in UNION {[1..n -> Alphabet \cup {"\n"}] : n \in 0..MaxFileLen} :
        t = <<>> \/ t[Len(t)] = "\n"}

\* The lines the iteration over a file yields, each with its "\n": `cur` is
\* the line being read.
RECURSIVE LinesFrom(_, _)
LinesFrom(t, cur) ==
    IF t = <<>> THEN (IF cur = <<>> THEN <<>> ELSE <<cur>>)
    ELSE IF Head(t) = "\n"
         THEN <<Append(cur, "\n")>> \o LinesFrom(Tail(t), <<>>)
         ELSE LinesFrom(Tail(t), Append(cur, Head(t)))

Files == {LinesFrom(t, <<>>) : t \in Texts}

LogRec(kind, lineno) == [kind |-> kind, line |-> lineno]

\* values[column] with Python's indexing: the position in 1..Len(values), or
\* 0 when the index raises IndexError.
PyIndex(values, col) ==
    IF col >= 0
    THEN IF col < Len(values) THEN col + 1 ELSE 0
    ELSE IF -col <= Len(values) THEN Len(values) + col + 1 ELSE 0

Init ==
    /\ data_exists \in BOOLEAN
    /\ infile \in (IF data_exists THEN Files ELSE {<<>>})
    /\ epsilon \in Epsilons
    /\ sensitivity \in Sensitivities
    /\ column \in Columns
    /\ delimiter \in Delimiters
    /\ status = "start"
    /\ pos = 0
    /\ outfile = <<>>
    /\ log = <<>>
    /\ calls = <<>>
    /\ draws = <<>>
    /\ noise = <<>>


\* Open that does not fail on a missing data file.
Open_missing_ignored ==
    /\ status = "start"
    /\ status' = "running"
    /\ log' = log
    /\ UNCHANGED <<data_exists, infile, epsilon, sensitivity, column,
                   delimiter, pos, outfile, calls, draws, noise>>

\* with open(data_file, 'r') as infile, open(output_file, 'w') as outfile
Open ==
    /\ status = "start"
    /\ IF data_exists
       THEN /\ status' = "running"
            /\ log' = log
       ELSE /\ status' = "exit1"
            /\ log' = Append(log, LogRec("not_found", 0))
    /\ UNCHANGED <<data_exists, infile, epsilon, sensitivity, column,
                   delimiter, pos, outfile, calls, draws, noise>>

\* The run stops in an except clause of apply_differential_privacy.
Abort(entries) ==
    /\ status' = "exit1"
    /\ log' = log \o entries
    /\ UNCHANGED <<pos, outfile>>


\* Emit that puts the new line in front of the lines written so far.
Emit_in_front(text, entries) ==
    /\ outfile' = <<text>> \o outfile
    /\ log' = log \o entries
    /\ pos' = pos + 1
    /\ status' = status

\* outfile.write(text + '\n'), after the diagnostics `entries`; the loop goes
\* on to the next line.
Emit(text, entries) ==
    /\ outfile' = Append(outfile, text)
    /\ log' = log \o entries
    /\ pos' = pos + 1
    /\ status' = status


\* SkipOutOfRange that names the line by the loop index i instead of i + 1.
SkipOutOfRange_zero_based(lineno, line) ==
    /\ Emit(line, <<LogRec("out_of_range", lineno - 1)>>)
    /\ UNCHANGED <<calls, draws, noise>>

\* if len(values) <= column: the line is written as it is.
SkipOutOfRange(lineno, line) ==
    /\ Emit(line, <<LogRec("out_of_range", lineno)>>)
    /\ UNCHANGED <<calls, draws, noise>>


\* float(values[column]) without its try: the ValueError leaves the loop and
\* is caught by except ValueError of apply_differential_privacy.
SkipNonNumerical_uncaught(lineno, line) ==
    /\ Abort(<<LogRec("value_error", 0)>>)
    /\ UNCHANGED <<calls, draws, noise>>

\* except ValueError around float(values[column]): the line is written as it is.
SkipNonNumerical(lineno, line) ==
    /\ Emit(line, <<LogRec("non_numerical", lineno)>>)
    /\ UNCHANGED <<calls, draws, noise>>

\* The noisy line: values with values[k] replaced by str(noisy_value).
NoisyLine(values, k, noisy_value) ==
    Join([values EXCEPT ![k] = FloatStr(noisy_value)], delimiter)

\* noise = laplace_noise(sensitivity, epsilon) and what follows it.
AddNoise(lineno, values, k, u) ==
    LET numerical_value == ParseFloat(values[k])
        r == laplace_noise(sensitivity, epsilon, u)
    IN  /\ calls' = Append(calls, lineno)
        /\ draws' = IF r.drew
                    THEN Append(draws, [loc |-> r.loc, scale |-> r.scale,
                                        u |-> u])
                    ELSE draws
        /\ IF r.exc = "none"
           THEN /\ noise' = <<r.value>>
                /\ Emit(NoisyLine(values, k, RatAdd(numerical_value, r.value)),
                        <<>>)
           ELSE \* logged by laplace_noise, raised again and caught by
                \* except ValueError or except Exception
                /\ noise' = noise
                /\ Abort(<<LogRec("noise_error", 0),
                           LogRec(IF r.exc = "ValueError" THEN "value_error"
                                  ELSE "unexpected", 0)>>)

\* One iteration of the for loop over line pos + 1, u being the variate the
\* pseudo-random source delivers in this iteration if it is asked.
ProcessLine(u) ==
    /\ status = "running"
    /\ pos < Len(infile)
    /\ LET lineno == pos + 1
           line == Strip(infile[lineno])
       IN  IF delimiter = <<>>
           THEN \* str.split('') raises ValueError
                /\ Abort(<<LogRec("value_error", 0)>>)
                /\ UNCHANGED <<calls, draws, noise>>
           ELSE
           LET values == Split(line, delimiter)
               k == PyIndex(values, column)
           IN  IF Len(values) <= column
               THEN SkipOutOfRange(lineno, line)
               ELSE IF k = 0
               THEN \* values[column] raises IndexError
                    /\ Abort(<<LogRec("unexpected", 0)>>)
                    /\ UNCHANGED <<calls, draws, noise>>
               ELSE IF ~IsFloat(values[k])
               THEN SkipNonNumerical(lineno, line)
               ELSE AddNoise(lineno, values, k, u)
    /\ UNCHANGED <<data_exists, infile, epsilon, sensitivity, column,
                   delimiter>>

\* The loop is over: the files are closed and success is logged.
Finish ==
    /\ status = "running"
    /\ pos = Len(infile)
    /\ status' = "done"
    /\ log' = Append(log, LogRec("success", 0))
    /\ UNCHANGED <<data_exists, infile, epsilon, sensitivity, column,
                   delimiter, pos, outfile, calls, draws, noise>>

Next ==
    \/ Open
    \/ \E u \in Units : ProcessLine(u)
    \/ Finish

Spec == Init /\ [][Next]_vars

-----------------------------------------------------------------------------
\* laplace_noise on its own: a caller that calls it up to MaxCalls times with
\* fixed arguments and catches what it raises.

NoiseArgs == -2..2

InitNoise ==
    /\ data_exists = FALSE
    /\ infile = <<>>
    /\ epsilon \in NoiseArgs
    /\ sensitivity \in NoiseArgs
    /\ column = 0
    /\ delimiter = <<",">>
    /\ status = "noise"
    /\ pos = 0
    /\ outfile = <<>>
    /\ log = <<>>
    /\ calls = <<>>
    /\ draws = <<>>
    /\ noise = <<>>

CallNoise(u) ==
    /\ status = "noise"
    /\ Len(calls) < MaxCalls
    /\ LET r == laplace_noise(sensitivity, epsilon, u)
       IN  /\ calls' = Append(calls, 0)
           /\ draws' = IF r.drew
                       THEN Append(draws, [loc |-> r.loc, scale |-> r.scale,
                                           u |-> u])
                       ELSE draws
           /\ noise' = IF r.exc = "none" THEN <<r.value>> ELSE noise
           /\ log' = IF r.exc = "none" THEN log
                     ELSE Append(log, LogRec("noise_error", 0))
    /\ UNCHANGED <<data_exists, infile, epsilon, sensitivity, column,
                   delimiter, status, pos, outfile>>

NextNoise == \E u \in Units : CallNoise(u)

SpecNoise == InitNoise /\ [][NextNoise]_vars

-----------------------------------------------------------------------------
\* Notions the properties are stated in.

\* A raw line without its trailing line-terminator characters.
RECURSIVE StripTerminators(_)
StripTerminators(s) ==
    IF s # <<>> /\ s[Len(s)] \in {"\n", "\r"}
    THEN StripTerminators(SubSeq(s, 1, Len(s) - 1))
    ELSE s

\* The record of input line i: the fields of the line without its terminator.
Record(i) == Split(StripTerminators(infile[i]), delimiter)

\* Input line i has its target field in range and numeric.
Eligible(i) ==
    IF delimiter = <<>> \/ column < 0 THEN FALSE
    ELSE /\ column < Len(Record(i))
         /\ IsFloat(Record(i)[column + 1])

\* The number of calls of the noise generator made for input line i.
CallCount(i) == Cardinality({j \in 1..Len(calls) : calls[j] = i})

SkipKinds == {"out_of_range", "non_numerical"}

\* The per-record diagnostics: positions in the log.
RecordDiags == {j \in 1..Len(log) : log[j].kind \in SkipKinds}

\* The per-record diagnostics that name line i.
DiagsOf(i) == {j \in RecordDiags : log[j].line = i}

\* The noise of a draw: loc + scale * u.
DrawValue(d) == RatAdd(Rat(d.loc, 1), RatMulInt(d.scale, d.u))

-----------------------------------------------------------------------------
\* C1: with epsilon <= 0 and an existing input file the run aborts before any
\* record is processed: nothing is handled, nothing is written, no per-record
\* diagnostic is emitted and the run never ends with status zero.
C1_AbortBeforeAnyRecord ==
    (data_exists /\ epsilon <= 0) =>
        /\ pos = 0
        /\ outfile = <<>>
        /\ RecordDiags = {}
        /\ status # "done"

\* C2: the noise generator is called for a record only if
\* 0 <= column < len(fields) and fields[column] is a number, fields being the
\* fields the processor splits the line into; a record with the index outside
\* that range is written as it is, with an out-of-range diagnostic.
C2_NoiseOnlyInRange ==
    delimiter # <<>> =>
        \A i \in 1..Len(infile) :
            LET fields == Split(Strip(infile[i]), delimiter)
                inRange == 0 <= column /\ column < Len(fields)
            IN  /\ CallCount(i) > 0 =>
                       inRange /\ IsFloat(fields[column + 1])
                /\ (i <= pos /\ ~inRange) =>
                       /\ CallCount(i) = 0
                       /\ outfile[i] = Strip(infile[i])
                       /\ \E j \in DiagsOf(i) : log[j].kind = "out_of_range"

\* An output line that comes from the raw line alone: the line as it is passed
\* through, or the line with one numeric field replaced by that number plus a
\* noise the run's parameters allow.
DerivedFrom(out, raw) ==
    LET line == Strip(raw)
        v == Split(line, delimiter)
        o == Split(out, delimiter)
    IN  \/ out = line
        \/ /\ epsilon > 0
           /\ Len(o) = Len(v)
           /\ \E k \in 1..Len(v) : \E u \in Units :
                  /\ IsFloat(v[k])
                  /\ o[k] = FloatStr(RatAdd(ParseFloat(v[k]),
                                RatMulInt(Rat(sensitivity, epsilon), u)))
                  /\ \A j \in (1..Len(v)) \ {k} : o[j] = v[j]

\* C3: after k lines have been handled the output holds exactly k lines and
\* output line i comes from input line i; a run that ends normally has written
\* as many lines as the input has.
C3_OrderedPrefix ==
    /\ Len(outfile) = pos
    /\ pos <= Len(infile)
    /\ status = "done" => pos = Len(infile)
    /\ \A i \in 1..Len(outfile) : DerivedFrom(outfile[i], infile[i])

C3_Witness ==
    /\ status = "done"
    /\ pos = 2
    /\ CallCount(1) = 0
    /\ CallCount(2) = 1
    /\ outfile[1] # outfile[2]
    /\ infile[1] # infile[2]

\* C4: a record that is passed through (diagnosed as out of range or
\* non-numeric) is written byte for byte as its input line without the
\* trailing line terminator.
C4_PassThroughVerbatim ==
    \A i \in 1..pos :
        DiagsOf(i) # {} => outfile[i] = StripTerminators(infile[i])

\* C5: with epsilon > 0, sensitivity >= 0, column >= 0, a non-empty delimiter
\* and an existing file the run never aborts: every diagnosed record is
\* written as it is and left behind, and the run ends with status zero only
\* after the last line.
C5_NoRecordAborts ==
    (data_exists /\ epsilon > 0 /\ sensitivity >= 0 /\ column >= 0
        /\ delimiter # <<>>) =>
        /\ status # "exit1"
        /\ status = "done" =>
               /\ pos = Len(infile)
               /\ log[Len(log)].kind = "success"
        /\ \A j \in RecordDiags :
               /\ log[j].line <= pos
               /\ outfile[log[j].line] = Strip(infile[log[j].line])

C5_Witness ==
    /\ data_exists /\ epsilon > 0 /\ sensitivity >= 0 /\ column >= 0
    /\ delimiter # <<>>
    /\ status = "done"
    /\ pos = 2
    /\ \E j \in RecordDiags : log[j].line = 1 /\ log[j].kind = "non_numerical"
    /\ CallCount(2) = 1

\* C6: for a handled record whose target field is in range and numeric the
\* noise generator is called exactly once and the output line is the record's
\* fields with only the target field replaced by the string of the parsed
\* value plus a noise drawn; the noise generator is not called for a record
\* that is passed through.
C6_OnlyTargetFieldReplaced ==
    \A i \in 1..pos :
        /\ Eligible(i) =>
               LET f == Record(i)
                   o == Split(outfile[i], delimiter)
                   k == column + 1
               IN  /\ CallCount(i) = 1
                   /\ Len(o) = Len(f)
                   /\ \A j \in (1..Len(f)) \ {k} : o[j] = f[j]
                   /\ \E n \in 1..Len(draws) :
                          o[k] = FloatStr(RatAdd(ParseFloat(f[k]),
                                                 DrawValue(draws[n])))
        /\ DiagsOf(i) # {} => CallCount(i) = 0

\* C7: a handled record that is passed through has exactly one log entry
\* naming its line number counted from 1, and the entry names the reason; a
\* transformed record has none; no per-record diagnostic names another line.
C7_OneDiagnosticPerSkip ==
    /\ \A j \in RecordDiags : log[j].line \in 1..pos
    /\ \A i \in 1..pos :
           LET entries == {j \in 1..Len(log) : log[j].line = i}
               fields == Split(Strip(infile[i]), delimiter)
           IN  IF CallCount(i) = 0
               THEN /\ Cardinality(entries) = 1
                    /\ \A j \in entries :
                           log[j].kind = IF column >= Len(fields)
                                         THEN "out_of_range"
                                         ELSE "non_numerical"
               ELSE entries = {}

C7_Witness ==
    /\ pos = 2
    /\ CallCount(1) = 1
    /\ CallCount(2) = 0
    /\ \E j \in DiagsOf(2) : log[j].kind = "out_of_range"

\* C8: with epsilon <= 0 every call of laplace_noise raises: no sample is
\* drawn, no value is returned and each call logs its error.
C8_NoSampleWithoutBudget ==
    epsilon <= 0 =>
        /\ draws = <<>>
        /\ noise = <<>>
        /\ Len(log) = Len(calls)
        /\ \A j \in 1..Len(log) : log[j].kind = "noise_error"

C8_Witness ==
    /\ epsilon <= 0
    /\ sensitivity < 0
    /\ Len(calls) = 2

\* C9: when the source file does not exist the run ends with status 1 before
\* any record is processed: nothing is read, drawn or written.
C9_MissingSourceAborts ==
    ~data_exists =>
        /\ status \in {"start", "exit1"}
        /\ pos = 0
        /\ outfile = <<>>
        /\ calls = <<>>
        /\ draws = <<>>
        /\ status = "exit1" => log = <<LogRec("not_found", 0)>>

C9_Witness ==
    /\ ~data_exists
    /\ status = "exit1"

\* The lines for which the noise generator returned a noise, in order.
RECURSIVE Transformed(_)
Transformed(n) ==
    IF n = 0 THEN <<>>
    ELSE IF CallCount(n) > 0 THEN Append(Transformed(n - 1), n)
    ELSE Transformed(n - 1)

\* C10: every draw has location 0 and the scale sensitivity / epsilon of the
\* run; there is one draw per transformed record, and the record's output
\* holds the parsed value plus the noise of its own draw.
C10_FixedScaleFreshDraws ==
    /\ \A n \in 1..Len(draws) :
           /\ draws[n].loc = 0
           /\ draws[n].scale.den > 0
           /\ draws[n].scale.num * epsilon = sensitivity * draws[n].scale.den
    /\ Len(draws) = Len(Transformed(pos))
    /\ \A n \in 1..Len(draws) :
           LET i == Transformed(pos)[n]
               v == Split(Strip(infile[i]), delimiter)
               o == Split(outfile[i], delimiter)
               k == PyIndex(v, column)
           IN  o[k] = FloatStr(RatAdd(ParseFloat(v[k]), DrawValue(draws[n])))

C10_Witness ==
    /\ Len(draws) = 2
    /\ epsilon = 2
    /\ sensitivity = 1
    /\ draws[1].u # draws[2].u
    /\ outfile[1] # outfile[2]

====
